---- MODULE Spec2Model ----
(***************************************************************************)
(* A model of chase_pdf_to_csv.py: the two regular expressions and the     *)
(* functions that apply them (find_account_name, find_transactions), and   *)
(* the run of main() over a directory of statement PDFs.                   *)
(*                                                                         *)
(* A character is a one-character string, a Python str is a sequence of    *)
(* characters, a date is <<year, month, day>>, and a Transaction is the    *)
(* tuple <<date, payee, amount>> of the source.                            *)
(***************************************************************************)
EXTENDS Integers, Sequences, FiniteSets, TLC

VARIABLES
    pc,               \* position of main(): the statement it executes next
    args,             \* the parsed command line: [archive, header]
    fs,               \* kinds of the three paths: [input, output, archive]
    input_dir,        \* the input directory as iterdir() lists it
    statements,       \* main's list `statements`
    i,                \* index of the loop main() is in
    all_transactions, \* main's dict, as a sequence of [account, txs] in insertion order
    parsed,           \* history: what parse_pdf_statement returned, per statement
    output_dir,       \* the CSV files written, in the order written
    archive_dir,      \* the files renamed into the archive directory
    stderr,           \* the messages printed to standard error
    stdout,           \* the summary line printed to standard output
    status,           \* the exit status of the process, -1 while it runs
    doc,              \* (find_transactions alone) the lines of the text
    text,             \* (find_transactions alone) the text handed to it
    found             \* (find_transactions alone) what it returned

vars == <<pc, args, fs, input_dir, statements, i, all_transactions, parsed,
          output_dir, archive_dir, stderr, stdout, status, doc, text, found>>

mainVars == <<pc, args, fs, input_dir, statements, i, all_transactions, parsed,
              output_dir, archive_dir, stderr, stdout, status>>

textVars == <<doc, text, found>>

-----------------------------------------------------------------------------
(* Bounds of the model *)

\* files in the input directory
MaxFiles == 2
\* lines of a text handed to find_transactions alone
MaxLines == 2

-----------------------------------------------------------------------------
(* Characters and strings *)

Max(S) == CHOOSE x \in S : \A y \in S : y <= x
Min(S) == CHOOSE x \in S : \A y \in S : x <= y

\* the printable ASCII characters in code order, 32 to 126 ("grave" stands for
\* the grave accent, code 96, which a TLA+ string cannot hold)
Printable ==
    << " ", "!", "\"", "#", "$", "%", "&", "'", "(", ")", "*", "+", ",", "-", ".", "/",
       "0", "1", "2", "3", "4", "5", "6", "7", "8", "9", ":", ";", "<", "=", ">", "?",
       "@", "A", "B", "C", "D", "E", "F", "G", "H", "I", "J", "K", "L", "M", "N", "O",
       "P", "Q", "R", "S", "T", "U", "V", "W", "X", "Y", "Z", "[", "\\", "]", "^", "_",
       "grave", "a", "b", "c", "d", "e", "f", "g", "h", "i", "j", "k", "l", "m", "n", "o",
       "p", "q", "r", "s", "t", "u", "v", "w", "x", "y", "z", "{", "|", "}", "~" >>

\* ord(c), the code point Python compares strings by
CharCode(c) ==
    CASE c = "\n" -> 10
      [] c = "\t" -> 9
      [] c = "£" -> 163
      [] OTHER -> 31 + (CHOOSE k \in 1..Len(Printable) : Printable[k] = c)

CharOf(n) == Printable[n - 31]

\* \d
Digits == {"0", "1", "2", "3", "4", "5", "6", "7", "8", "9"}
UpperCase == {CharOf(n) : n \in 65..90}
LowerCase == {CharOf(n) : n \in 97..122}
\* \w
WordChars == Digits \cup UpperCase \cup LowerCase \cup {"_"}
\* \s
SpaceChars == {" ", "\t", "\n", "\r", "\f"}
\* [0-9,]
AmountChars == Digits \cup {","}

IsDigit(c) == c \in Digits
IsWord(c) == c \in WordChars
IsSpace(c) == c \in SpaceChars

\* str.lower() of one character
LowerChar(c) == IF c \in UpperCase THEN CharOf(CharCode(c) + 32) ELSE c
StrLower(s) == [k \in 1..Len(s) |-> LowerChar(s[k])]

\* the character at position p (1-based), "" beyond either end of the text
At(t, p) == IF p >= 1 /\ p <= Len(t) THEN t[p] ELSE ""

\* how many characters from position p on are all in the class S
RunLen(t, p, S) ==
    IF p > Len(t) THEN 0
    ELSE Min({q \in p..(Len(t) + 1) : q = Len(t) + 1 \/ t[q] \notin S}) - p

\* how many characters from position p on '.' matches: up to the next newline
LineRest(t, p) ==
    IF p > Len(t) THEN 0
    ELSE Min({q \in p..(Len(t) + 1) : q = Len(t) + 1 \/ t[q] = "\n"}) - p

\* s < t as Python compares two str
RECURSIVE StrLess(_, _)
StrLess(s, t) ==
    IF t = <<>> THEN FALSE
    ELSE IF s = <<>> THEN TRUE
    ELSE IF s[1] # t[1] THEN CharCode(s[1]) < CharCode(t[1])
    ELSE StrLess(Tail(s), Tail(t))

\* the text of s with sep between the pieces: sep.join(s)
RECURSIVE Join(_, _)
Join(s, sep) ==
    IF s = <<>> THEN <<>>
    ELSE IF Len(s) = 1 THEN s[1]
    ELSE s[1] \o sep \o Join(Tail(s), sep)

-----------------------------------------------------------------------------
(* datetime.strptime(s, '%d %b %Y').date() *)

MonthNames ==
    << <<"j", "a", "n">>, <<"f", "e", "b">>, <<"m", "a", "r">>, <<"a", "p", "r">>,
       <<"m", "a", "y">>, <<"j", "u", "n">>, <<"j", "u", "l">>, <<"a", "u", "g">>,
       <<"s", "e", "p">>, <<"o", "c", "t">>, <<"n", "o", "v">>, <<"d", "e", "c">> >>

DigitVal(c) == CharCode(c) - 48

IsLeap(y) == y % 4 = 0 /\ (y % 100 # 0 \/ y % 400 = 0)

DaysIn(m, y) ==
    IF m = 2 THEN (IF IsLeap(y) THEN 29 ELSE 28)
    ELSE IF m \in {4, 6, 9, 11} THEN 30 ELSE 31

\* s is the 11 characters `\d{2} \w{3} \d{4}` matched.  [ok |-> FALSE] is the
\* ValueError strptime raises: a day that is not 01..31, a month that is not a
\* month abbreviation (any case), the year 0000, a day the month does not have.
strptime(s) ==
    LET day == 10 * DigitVal(s[1]) + DigitVal(s[2])
        name == StrLower(SubSeq(s, 4, 6))
        months == {m \in 1..12 : MonthNames[m] = name}
        year == 1000 * DigitVal(s[8]) + 100 * DigitVal(s[9])
                  + 10 * DigitVal(s[10]) + DigitVal(s[11])
    IN  IF /\ day >= 1
           /\ day <= 31
           /\ months # {}
           /\ year >= 1
           /\ day <= DaysIn(Min(months), year)
        THEN [ok |-> TRUE, value |-> <<year, Min(months), day>>]
        ELSE [ok |-> FALSE, value |-> <<>>]

-----------------------------------------------------------------------------
(* TRANSACTION_PATTERN and find_transactions *)

NoMatch == [ok |-> FALSE]

\* `\d{2} \w{3} \d{4}` at position p
DateAt(t, p) ==
    /\ IsDigit(At(t, p)) /\ IsDigit(At(t, p + 1))
    /\ At(t, p + 2) = " "
    /\ IsWord(At(t, p + 3)) /\ IsWord(At(t, p + 4)) /\ IsWord(At(t, p + 5))
    /\ At(t, p + 6) = " "
    /\ IsDigit(At(t, p + 7)) /\ IsDigit(At(t, p + 8))
    /\ IsDigit(At(t, p + 9)) /\ IsDigit(At(t, p + 10))

\* `[0-9,]+\.\d{2}` at position p: the position after the match, 0 for no match
MoneyEnd(t, p) ==
    LET run == RunLen(t, p, AmountChars)
        ks == {k \in 1..run : /\ At(t, p + k) = "."
                               /\ IsDigit(At(t, p + k + 1))
                               /\ IsDigit(At(t, p + k + 2))}
    IN  IF ks = {} THEN 0 ELSE p + Max(ks) + 3

\* `£[0-9,]+\.\d{2}` at position p: the position after the match, 0 for no match
BalanceEnd(t, p) == IF At(t, p) = "£" THEN MoneyEnd(t, p + 1) ELSE 0

\* `\s-?£[0-9,]+\.\d{2}` at position p: the position after the match, 0 for no
\* match.  A "-" is taken when it is there: without it the "£" cannot match.
AfterAmount(t, p) ==
    IF ~IsSpace(At(t, p)) THEN 0
    ELSE IF At(t, p + 1) = "-" THEN BalanceEnd(t, p + 2)
    ELSE BalanceEnd(t, p + 1)

\* the groups of the tail at p, its amount ending before aEnd, itself before bEnd
TailGroups(t, p, aEnd, bEnd) ==
    IF bEnd # 0
    THEN [ok |-> TRUE, sign |-> At(t, p),
          amount |-> SubSeq(t, p + 2, aEnd - 1), end |-> bEnd]
    ELSE NoMatch

\* the tail at p, its amount ending before aEnd
TailFrom(t, p, aEnd) ==
    IF aEnd # 0 THEN TailGroups(t, p, aEnd, AfterAmount(t, aEnd)) ELSE NoMatch

\* `(\+|-)£([0-9,]+\.\d{2})\s-?£[0-9,]+\.\d{2}` at position p
TailAt(t, p) ==
    IF At(t, p) \in {"+", "-"} /\ At(t, p + 1) = "£"
    THEN TailFrom(t, p, MoneyEnd(t, p + 2))
    ELSE NoMatch

\* After the date come `\s+(.*)\s+` and the tail: s1 whitespace characters, n
\* characters of the line, s2 whitespace characters.  Each of the three is
\* greedy, so the match is the first that succeeds with s1 as large as
\* possible, then n, then s2.

\* the lengths s2 of the second `\s+`, at p, with which the tail matches
Spaces2(t, p) == {s2 \in 1..RunLen(t, p, SpaceChars) : TailAt(t, p + s2).ok}

\* the lengths n of `(.*)`, at p, with which what follows matches
PayeeLens(t, p) == {n \in 0..LineRest(t, p) : Spaces2(t, p + n) # {}}

\* the lengths s1 of the first `\s+`, at p, with which what follows matches
Spaces1(t, p) == {s1 \in 1..RunLen(t, p, SpaceChars) : PayeeLens(t, p + s1) # {}}

\* the groups of the match at p, the payee from d to before e
Groups(t, p, d, e, tail) ==
    [ok |-> TRUE,
     start |-> p,
     date |-> SubSeq(t, p, p + 10),
     payee |-> SubSeq(t, d, e - 1),
     sign |-> tail.sign,
     amount |-> tail.amount,
     end |-> tail.end]

\* the match at p, the payee from d to before e
MatchPayee(t, p, d, e) == Groups(t, p, d, e, TailAt(t, e + Max(Spaces2(t, e))))

\* the match at p, the payee from d on
MatchFrom(t, p, d) == MatchPayee(t, p, d, d + Max(PayeeLens(t, d)))

\* the whole pattern at position p
MatchAt(t, p) ==
    IF DateAt(t, p) /\ Spaces1(t, p + 11) # {}
    THEN MatchFrom(t, p, p + 11 + Max(Spaces1(t, p + 11)))
    ELSE NoMatch

\* what the pattern matches at each position of the text
Matches(t) == [p \in 1..Len(t) |-> MatchAt(t, p)]

\* the scan of findall from position p on: the leftmost match, then the scan
\* goes on where that match ended
RECURSIVE Scan(_, _)
Scan(ms, p) ==
    LET starts == {q \in p..Len(ms) : ms[q].ok}
    IN  IF starts = {} THEN <<>>
        ELSE <<ms[Min(starts)]>> \o Scan(ms, ms[Min(starts)].end)

\* TRANSACTION_PATTERN.findall(text), each match with where it starts and ends
findall(t) == Scan(Matches(t), 1)

\* One round of the loop of find_transactions: the tuple it appends
Transaction(m) ==
    << strptime(m.date).value,
       m.payee,
       IF m.sign = "-" THEN <<m.sign>> \o m.amount ELSE m.amount >>

\* the loop of find_transactions over the matches ms.  [raised |-> TRUE] is the
\* ValueError of strptime, which nothing catches
Transactions(ms) ==
    IF \E k \in 1..Len(ms) : ~strptime(ms[k].date).ok
    THEN [raised |-> TRUE, value |-> <<>>]
    ELSE [raised |-> FALSE, value |-> [k \in 1..Len(ms) |-> Transaction(ms[k])]]

find_transactions(t) == Transactions(findall(t))

-----------------------------------------------------------------------------
(* ACCOUNT_NAME_PATTERN and find_account_name *)

AccountSuffix ==
    <<" ", "s", "t", "a", "t", "e", "m", "e", "n", "t", " ", "A", "c", "c", "o",
      "u", "n", "t", " ", "n", "u", "m", "b", "e", "r", ":", " ">>

\* ` statement Account number: \d{8}` at position p
AccountTailAt(t, p) ==
    /\ \A k \in 1..Len(AccountSuffix) : At(t, p + k - 1) = AccountSuffix[k]
    /\ \A k \in 0..7 : IsDigit(At(t, p + Len(AccountSuffix) + k))

\* the lengths n of `.*` with which the pattern matches at the line start p
AccountLens(t, p) == {n \in 0..LineRest(t, p) : AccountTailAt(t, p + n)}

\* `^` under re.M: the start of the text and every position after a newline
LineStarts(t) == {p \in 1..(Len(t) + 1) : p = 1 \/ t[p - 1] = "\n"}

\* ACCOUNT_NAME_PATTERN.search(text): group 1 of the first match, else None
find_account_name(t) ==
    LET starts == {p \in LineStarts(t) : AccountLens(t, p) # {}}
    IN  IF starts = {} THEN [found |-> FALSE, name |-> <<>>]
        ELSE LET p == Min(starts)
             IN  [found |-> TRUE,
                  name |-> SubSeq(t, p, p + Max(AccountLens(t, p)) - 1)]

-----------------------------------------------------------------------------
(* find_transactions alone, on texts made of whole lines *)

\* The lines a text is made of.  tx says that the line is a well-formed
\* transaction line: a date, a description, a signed amount and a balance.

\* 01 Jan 2024 Coffee Shop  -£4.50 -£95.50
LineCoffee ==
    [tx |-> TRUE,
     chars |-> <<"0", "1", " ", "J", "a", "n", " ", "2", "0", "2", "4", " ",
                "C", "o", "f", "f", "e", "e", " ", "S", "h", "o", "p", " ",
                " ", "-", "£", "4", ".", "5", "0", " ", "-", "£", "9", "5",
                ".", "5", "0">>]

\* 02 Jan 2024 B +£12.50 £1,108.00
LinePlus ==
    [tx |-> TRUE,
     chars |-> <<"0", "2", " ", "J", "a", "n", " ", "2", "0", "2", "4", " ",
                "B", " ", "+", "£", "1", "2", ".", "5", "0", " ", "£", "1",
                ",", "1", "0", "8", ".", "0", "0">>]

\* 02 Jan 2024 A -£12.50 £95.50
LineMinus ==
    [tx |-> TRUE,
     chars |-> <<"0", "2", " ", "J", "a", "n", " ", "2", "0", "2", "4", " ",
                "A", " ", "-", "£", "1", "2", ".", "5", "0", " ", "£", "9",
                "5", ".", "5", "0">>]

\* 30 jun 2024 Rent -£1.00 £2.00
LineLower ==
    [tx |-> TRUE,
     chars |-> <<"3", "0", " ", "j", "u", "n", " ", "2", "0", "2", "4", " ",
                "R", "e", "n", "t", " ", "-", "£", "1", ".", "0", "0", " ",
                "£", "2", ".", "0", "0">>]

\* Opening balance £100.00
LineOpening ==
    [tx |-> FALSE,
     chars |-> <<"O", "p", "e", "n", "i", "n", "g", " ", "b", "a", "l", "a",
                "n", "c", "e", " ", "£", "1", "0", "0", ".", "0", "0">>]

\* to 31 Jan 2024
LinePeriod ==
    [tx |-> FALSE,
     chars |-> <<"t", "o", " ", "3", "1", " ", "J", "a", "n", " ", "2", "0",
                "2", "4">>]

\* 29 Feb 2024 C -£1.00 £2.00
LineLeap ==
    [tx |-> TRUE,
     chars |-> <<"2", "9", " ", "F", "e", "b", " ", "2", "0", "2", "4", " ", "C", " ", "-",
                 "£", "1", ".", "0", "0", " ", "£", "2", ".", "0", "0">>]

Lines == {LineCoffee, LinePlus, LineMinus, LineLower, LineOpening,
           LinePeriod, LineLeap}


\* `found` before find_transactions has run
NotRun == [run |-> FALSE]

\* The variables of main() while find_transactions is looked at alone
MainIdle ==
    /\ pc = "idle"
    /\ args = [archive |-> FALSE, header |-> TRUE]
    /\ fs = [input |-> "dir", output |-> "dir", archive |-> "none"]
    /\ input_dir = <<>>
    /\ statements = <<>>
    /\ i = 0
    /\ all_transactions = <<>>
    /\ parsed = <<>>
    /\ output_dir = <<>>
    /\ archive_dir = <<>>
    /\ stderr = <<>>
    /\ stdout = <<>>
    /\ status = -1

InitText ==
    /\ doc = <<>>
    /\ text = <<>>
    /\ found = NotRun
    /\ MainIdle

\* The text grows by one line and its newline
AddLine(l) ==
    /\ ~found.run
    /\ Len(doc) < MaxLines
    /\ doc' = Append(doc, l)
    /\ text' = text \o l.chars \o <<"\n">>
    /\ UNCHANGED <<found, mainVars>>

\* find_transactions(text) is called
Find ==
    /\ ~found.run
    /\ found' = [run |-> TRUE, result |-> find_transactions(text)]
    /\ UNCHANGED <<doc, text, mainVars>>

NextText ==
    \/ \E l \in Lines : AddLine(l)
    \/ Find

SpecText == InitText /\ [][NextText]_vars

-----------------------------------------------------------------------------
(* The input: PDF files, as pdfplumber sees them *)

\* A PDF file is [readable, pages]: whether pdfplumber can open it and extract
\* its text, and the text of each of its pages.
Pdf ==
    [ Unreadable |-> [readable |-> FALSE, pages |-> <<>>]
    \* account X; two transactions of one day, B before A
    , X1 |->
        [readable |-> TRUE,
         pages |-> << <<"X", " ", "s", "t", "a", "t", "e", "m", "e", "n", "t",
                       " ", "A", "c", "c", "o", "u", "n", "t", " ", "n", "u",
                       "m", "b", "e", "r", ":", " ", "1", "2", "3", "4", "5",
                       "6", "7", "8", "\n", "0", "2", " ", "J", "a", "n", " ",
                       "2", "0", "2", "4", " ", "B", " ", "-", "£", "1", ".",
                       "0", "0", " ", "£", "9", ".", "0", "0", "\n", "0", "2",
                       " ", "J", "a", "n", " ", "2", "0", "2", "4", " ", "A",
                       " ", "+", "£", "2", ".", "0", "0", " ", "£", "1", "1",
                       ".", "0", "0">> >>]
    \* account X, two pages; an earlier day, and the A of X1 again
    , X2 |->
        [readable |-> TRUE,
         pages |-> << <<"X", " ", "s", "t", "a", "t", "e", "m", "e", "n", "t",
                       " ", "A", "c", "c", "o", "u", "n", "t", " ", "n", "u",
                       "m", "b", "e", "r", ":", " ", "1", "2", "3", "4", "5",
                       "6", "7", "8", "\n", "0", "1", " ", "J", "a", "n", " ",
                       "2", "0", "2", "4", " ", "C", " ", "-", "£", "3", ".",
                       "0", "0", " ", "£", "1", "0", ".", "0", "0">>,
                     <<"0", "2", " ", "J", "a", "n", " ", "2", "0", "2", "4",
                       " ", "A", " ", "+", "£", "2", ".", "0", "0", " ", "£",
                       "1", "1", ".", "0", "0">> >>]
    \* account Y
    , Y1 |->
        [readable |-> TRUE,
         pages |-> << <<"Y", " ", "s", "t", "a", "t", "e", "m", "e", "n", "t",
                       " ", "A", "c", "c", "o", "u", "n", "t", " ", "n", "u",
                       "m", "b", "e", "r", ":", " ", "8", "7", "6", "5", "4",
                       "3", "2", "1", "\n", "0", "3", " ", "J", "a", "n", " ",
                       "2", "0", "2", "4", " ", "D", " ", "-", "£", "1", ".",
                       "0", "0", " ", "£", "5", ".", "0", "0">> >>]
    \* no account line
    , NoAccount |->
        [readable |-> TRUE,
         pages |-> << <<"0", "2", " ", "J", "a", "n", " ", "2", "0", "2", "4",
                       " ", "B", " ", "-", "£", "1", ".", "0", "0", " ", "£",
                       "9", ".", "0", "0">> >>]
    \* no transaction
    , NoTx |->
        [readable |-> TRUE,
         pages |-> << <<"X", " ", "s", "t", "a", "t", "e", "m", "e", "n", "t",
                       " ", "A", "c", "c", "o", "u", "n", "t", " ", "n", "u",
                       "m", "b", "e", "r", ":", " ", "1", "2", "3", "4", "5",
                       "6", "7", "8", "\n", "N", "o", " ", "a", "c", "t", "i",
                       "v", "i", "t", "y">> >>]
    \* a date that is no date
    , BadDate |->
        [readable |-> TRUE,
         pages |-> << <<"X", " ", "s", "t", "a", "t", "e", "m", "e", "n", "t",
                       " ", "A", "c", "c", "o", "u", "n", "t", " ", "n", "u",
                       "m", "b", "e", "r", ":", " ", "1", "2", "3", "4", "5",
                       "6", "7", "8", "\n", "3", "1", " ", "F", "e", "b", " ",
                       "2", "0", "2", "4", " ", "E", " ", "-", "£", "1", ".",
                       "0", "0", " ", "£", "2", ".", "0", "0">> >>]
    ]

PdfIds == DOMAIN Pdf

\* '\n'.join(page.extract_text() for page in pdf.pages), None when anything
\* is raised on the way
get_pdf_text(pdf) ==
    IF pdf.readable
    THEN [ok |-> TRUE, text |-> Join(pdf.pages, <<"\n">>)]
    ELSE [ok |-> FALSE, text |-> <<>>]

-----------------------------------------------------------------------------
(* parse_pdf_statement *)

CouldNotParse == "Could not parse PDF File"
NoAccountDetails == "Could not find account details in PDF File"
NoTransactions == "Could not find any transactions in PDF File"
NotADirectory == "is not a directory"
NoPdfFiles == "Did not find any PDF files"

\* parse_pdf_statement ends in fatal_error(error)
Failed(error) ==
    [outcome |-> "fatal", error |-> error, account_name |-> <<>>,
     transactions |-> <<>>]

\* parse_pdf_statement from line 116 on
ParseTransactions(account_name, transactions) ==
    IF transactions.raised
    THEN [outcome |-> "raise", error |-> "ValueError",
          account_name |-> <<>>, transactions |-> <<>>]
    ELSE IF Len(transactions.value) = 0 THEN Failed(NoTransactions)
    ELSE [outcome |-> "ok", error |-> "",
          account_name |-> account_name,
          transactions |-> transactions.value]

\* parse_pdf_statement from line 113 on
ParseAccount(pdf_text, account_name) ==
    IF ~account_name.found THEN Failed(NoAccountDetails)
    ELSE ParseTransactions(account_name.name, find_transactions(pdf_text))

\* parse_pdf_statement from line 108 on
ParseText(pdf_text) ==
    IF ~pdf_text.ok THEN Failed(CouldNotParse)
    ELSE ParseAccount(pdf_text.text, find_account_name(pdf_text.text))

\* The outcome is "ok" when the function returns, "fatal" when it ends in
\* fatal_error, "raise" when an exception leaves it.
parse_pdf_statement(pdf) == ParseText(get_pdf_text(pdf))

\* parse_pdf_statement of each file of the library
Statement == [p \in PdfIds |-> parse_pdf_statement(Pdf[p])]

-----------------------------------------------------------------------------
(* The aggregation of main(): the dict, the sort, the file name *)

\* An item of a list of the dict is [t, file, pos]: the Transaction tuple t,
\* and which object it is: the pos-th tuple that the file-th statement gave.
\* Only t is data of the program; file and pos tell equal tuples apart.
Items(txs, file) ==
    [k \in 1..Len(txs) |-> [t |-> txs[k], file |-> file, pos |-> k]]

\* (mutant) every statement makes an entry of its own
AccumulateNoMerge(d, account_name, txs) ==
    Append(d, [account |-> account_name, txs |-> txs])

\* (mutant) = in the place of +=: the list of the last statement replaces the
\* list of the account
AccumulateOverwrite(d, account_name, txs) ==
    IF \E k \in 1..Len(d) : d[k].account = account_name
    THEN [k \in 1..Len(d) |->
            IF d[k].account = account_name
            THEN [d[k] EXCEPT !.txs = txs]
            ELSE d[k]]
    ELSE Append(d, [account |-> account_name, txs |-> txs])

\* all_transactions[account_name] += txs, on a defaultdict(list)
Accumulate(d, account_name, txs) ==
    IF \E k \in 1..Len(d) : d[k].account = account_name
    THEN [k \in 1..Len(d) |->
            IF d[k].account = account_name
            THEN [d[k] EXCEPT !.txs = @ \o txs]
            ELSE d[k]]
    ELSE Append(d, [account |-> account_name, txs |-> txs])

\* a < b for two dates
DateLess(a, b) ==
    \/ a[1] < b[1]
    \/ a[1] = b[1] /\ a[2] < b[2]
    \/ a[1] = b[1] /\ a[2] = b[2] /\ a[3] < b[3]

\* a < b for two Transaction tuples, as Python compares tuples: by the first
\* component that differs
TupleLess(a, b) ==
    IF a[1] # b[1] THEN DateLess(a[1], b[1])
    ELSE IF a[2] # b[2] THEN StrLess(a[2], b[2])
    ELSE StrLess(a[3], b[3])

\* (mutant) a sort that is not stable: x goes before the items equal to it
InsertBeforeEqual(s, x) ==
    LET before == {k \in 1..Len(s) : TupleLess(s[k].t, x.t)}
        n == IF before = {} THEN 0 ELSE Max(before)
    IN  SubSeq(s, 1, n) \o <<x>> \o SubSeq(s, n + 1, Len(s))

\* (mutant) a stable sort with the date as its key
InsertByDate(s, x) ==
    LET before == {k \in 1..Len(s) : ~DateLess(x.t[1], s[k].t[1])}
        n == IF before = {} THEN 0 ELSE Max(before)
    IN  SubSeq(s, 1, n) \o <<x>> \o SubSeq(s, n + 1, Len(s))

\* x goes behind every item of the sorted list s that is not greater than it
Insert(s, x) ==
    LET before == {k \in 1..Len(s) : ~TupleLess(x.t, s[k].t)}
        n == IF before = {} THEN 0 ELSE Max(before)
    IN  SubSeq(s, 1, n) \o <<x>> \o SubSeq(s, n + 1, Len(s))

RECURSIVE SortFrom(_, _)
SortFrom(s, l) ==
    IF l = <<>> THEN s ELSE SortFrom(Insert(s, Head(l)), Tail(l))

\* list.sort() with no key: ascending by the tuples, and stable
sort(l) == SortFrom(<<>>, l)

Pad2(n) == <<CharOf(48 + ((n \div 10) % 10)), CharOf(48 + (n % 10))>>

\* str(date): year-month-day, the year on four digits, month and day on two
IsoDate(d) ==
    Pad2(d[1] \div 100) \o Pad2(d[1] % 100) \o <<"-">> \o Pad2(d[2])
        \o <<"-">> \o Pad2(d[3])

\* (mutant) the end date is read where the start date is
generate_filename_first(account_name, transactions) ==
    LET start_date == transactions[1].t[1]
        end_date == transactions[1].t[1]
    IN  account_name \o <<" ", "-", " ">> \o IsoDate(start_date)
            \o <<" ", "t", "o", " ">> \o IsoDate(end_date)
            \o <<".", "c", "s", "v">>

generate_filename(account_name, transactions) ==
    LET start_date == transactions[1].t[1]
        end_date == transactions[Len(transactions)].t[1]
    IN  account_name \o <<" ", "-", " ">> \o IsoDate(start_date)
            \o <<" ", "t", "o", " ">> \o IsoDate(end_date)
            \o <<".", "c", "s", "v">>

\* The row csv.writer writes for a tuple: the date as str(date), the payee
\* and the amount as they are.  (The quoting of a field is left to csv.)
Row(t) == <<IsoDate(t[1]), t[2], t[3]>>

\* ['Date', 'Transaction details', 'Amount']
HeaderRow ==
    << <<"D", "a", "t", "e">>,
       <<"T", "r", "a", "n", "s", "a", "c", "t", "i", "o", "n",
         " ", "d", "e", "t", "a", "i", "l", "s">>,
       <<"A", "m", "o", "u", "n", "t">> >>

\* The file write_csv leaves behind
write_csv(output_csv, transactions, header) ==
    [name |-> output_csv,
     rows |-> (IF header THEN <<HeaderRow>> ELSE <<>>)
                 \o [k \in 1..Len(transactions) |-> Row(transactions[k].t)]]

-----------------------------------------------------------------------------
(* The run of main() *)

PdfSuffix == <<".", "p", "d", "f">>

\* What a directory entry can be: a suffix and a content.  Its name is its
\* position in the listing with its suffix.
Entries ==
    {[suffix |-> PdfSuffix, pdf |-> p] : p \in PdfIds}
        \cup {[suffix |-> <<".", "P", "D", "F">>, pdf |-> "Y1"],
              [suffix |-> <<".", "t", "x", "t">>, pdf |-> "Unreadable"]}

\* Path.name of an entry
Name(e) == <<"s", CharOf(48 + e.stem)>> \o e.suffix

Init ==
    /\ pc = "parse_arguments"
    /\ args \in [archive : BOOLEAN, header : BOOLEAN]
    /\ fs \in [input : {"dir", "file", "missing"},
               output : {"dir", "file", "missing"},
               archive : {"dir", "file", "missing", "none"}]
    /\ (fs.archive = "none") = ~args.archive
    /\ \E n \in 0..MaxFiles : \E f \in [1..n -> Entries] :
          input_dir = [k \in 1..n |->
                         [stem |-> k, suffix |-> f[k].suffix, pdf |-> f[k].pdf]]
    /\ (fs.input # "dir" => input_dir = <<>>)
    /\ statements = <<>>
    /\ i = 0
    /\ all_transactions = <<>>
    /\ parsed = <<>>
    /\ output_dir = <<>>
    /\ archive_dir = <<>>
    /\ stderr = <<>>
    /\ stdout = <<>>
    /\ status = -1
    /\ doc = <<>>
    /\ text = <<>>
    /\ found = NotRun

\* fatal_error(error): the message on standard error, then sys.exit(1)
fatal_error(error) ==
    /\ stderr' = Append(stderr, error)
    /\ status' = 1
    /\ pc' = "exit"

\* check_and_create_dir(path), on the kind of the path: the kind it leaves,
\* "fatal" when it ends in fatal_error
check_and_create_dir(kind) ==
    IF kind = "missing" THEN "dir"
    ELSE IF kind # "dir" THEN "fatal"
    ELSE kind

\* main, line 158: parse_arguments()
ParseArguments ==
    /\ pc = "parse_arguments"
    /\ LET output == check_and_create_dir(fs.output)
           archive == IF args.archive THEN check_and_create_dir(fs.archive)
                      ELSE fs.archive
       IN  IF fs.input # "dir"
           THEN /\ fatal_error([error |-> NotADirectory, path |-> "input"])
                /\ UNCHANGED fs
           ELSE IF output = "fatal"
           THEN /\ fatal_error([error |-> NotADirectory, path |-> "output"])
                /\ UNCHANGED fs
           ELSE IF archive = "fatal"
           THEN /\ fatal_error([error |-> NotADirectory, path |-> "archive"])
                /\ fs' = [fs EXCEPT !.output = output]
           ELSE /\ fs' = [fs EXCEPT !.output = output, !.archive = archive]
                /\ pc' = "get_statement_files"
                /\ UNCHANGED <<stderr, status>>
    /\ UNCHANGED <<args, input_dir, statements, i, all_transactions, parsed,
                   output_dir, archive_dir, stdout, textVars>>

\* input_file.suffix.lower() == '.pdf'
IsPdf(e) == StrLower(e.suffix) = PdfSuffix

\* main, line 159: get_statement_files(input_path)
GetStatementFiles ==
    /\ pc = "get_statement_files"
    /\ LET files == SelectSeq(input_dir, IsPdf)
       IN  IF Len(files) = 0
           THEN /\ fatal_error([error |-> NoPdfFiles, path |-> "input"])
                /\ UNCHANGED <<statements, i>>
           ELSE /\ statements' = files
                /\ i' = 1
                /\ pc' = "parse"
                /\ UNCHANGED <<stderr, status>>
    /\ UNCHANGED <<args, fs, input_dir, all_transactions, parsed, output_dir,
                   archive_dir, stdout, textVars>>

\* (mutant) a statement that fails is passed over and the loop goes on
ParseNextKeepGoing(r, k, n) ==
    IF k < n THEN "parse"
    ELSE "write"

\* Where main() is after parse_pdf_statement ended with the result r on the
\* k-th of n statements: out of the process, or on in the loop, or past it
ParseNext(r, k, n) ==
    IF r.outcome = "fatal" THEN "exit"
    ELSE IF r.outcome = "raise" THEN "crash"
    ELSE IF k < n THEN "parse"
    ELSE "write"

\* main, lines 162 to 164: one round of the loop over the statements
ParseStatement ==
    /\ pc = "parse"
    /\ i <= Len(statements)
    /\ LET statement_pdf == statements[i]
           r == Statement[statement_pdf.pdf]
           next == ParseNext(r, i, Len(statements))
       IN  /\ pc' = next
           /\ i' = IF next = "parse" THEN i + 1 ELSE IF next = "write" THEN 1 ELSE i
           /\ stderr' = IF r.outcome = "fatal"
                        THEN Append(stderr, [error |-> r.error,
                                             path |-> Name(statement_pdf)])
                        ELSE IF r.outcome = "raise"
                        THEN Append(stderr, [error |-> "Traceback",
                                             path |-> Name(statement_pdf)])
                        ELSE stderr
           /\ status' = IF next \in {"exit", "crash"} THEN 1 ELSE status
           /\ parsed' = IF r.outcome = "ok" THEN Append(parsed, r) ELSE parsed
           /\ all_transactions' =
                 IF r.outcome = "ok"
                 THEN Accumulate(all_transactions, r.account_name,
                                 Items(r.transactions, i))
                 ELSE all_transactions
    /\ UNCHANGED <<args, fs, input_dir, statements, output_dir, archive_dir,
                   stdout, textVars>>

\* (mutant) the statements are moved as soon as one account is written
WriteNextArchiveFirst(k, n, archive) ==
    IF archive THEN "archive"
    ELSE IF k < n THEN "write"
    ELSE "summary"

\* Where main() is after the k-th of the n accounts is written
WriteNext(k, n, archive) ==
    IF k < n THEN "write"
    ELSE IF archive THEN "archive"
    ELSE "summary"

\* main, lines 166 to 169: one round of the loop over the accounts
WriteAccount ==
    /\ pc = "write"
    /\ i <= Len(all_transactions)
    /\ LET account_name == all_transactions[i].account
           account_transactions == sort(all_transactions[i].txs)
           output_file == generate_filename(account_name, account_transactions)
           next == WriteNext(i, Len(all_transactions), args.archive)
       IN  /\ all_transactions' =
                 [all_transactions EXCEPT ![i].txs = account_transactions]
           /\ output_dir' = Append(output_dir,
                 write_csv(output_file, account_transactions, args.header))
           /\ pc' = next
           /\ i' = IF next = "write" THEN i + 1 ELSE 1
    /\ UNCHANGED <<args, fs, input_dir, statements, parsed, archive_dir,
                   stderr, stdout, status, textVars>>

\* Where main() is after the k-th of the n statements is moved
ArchiveNext(k, n) == IF k < n THEN "archive" ELSE "summary"

\* main, lines 171 to 173: one round of the loop that moves the statements
ArchiveFile ==
    /\ pc = "archive"
    /\ i <= Len(statements)
    /\ LET statement_pdf == statements[i]
           Stays(e) == e # statement_pdf
       IN  /\ archive_dir' = Append(archive_dir,
                 [name |-> Name(statement_pdf), pdf |-> statement_pdf.pdf])
           /\ input_dir' = SelectSeq(input_dir, Stays)
    /\ pc' = ArchiveNext(i, Len(statements))
    /\ i' = IF i < Len(statements) THEN i + 1 ELSE i
    /\ UNCHANGED <<args, fs, statements, all_transactions, parsed, output_dir,
                   stderr, stdout, status, textVars>>

Plural(n) == IF n > 1 THEN "files" ELSE "file"

\* main, lines 175 and 176: the summary line, and the process ends
PrintSummary ==
    /\ pc = "summary"
    /\ stdout' = Append(stdout,
          <<"Processed", Len(statements), "PDF", Plural(Len(statements)),
            "and produced", Len(all_transactions), "CSV",
            Plural(Len(all_transactions))>>)
    /\ status' = 0
    /\ pc' = "done"
    /\ UNCHANGED <<args, fs, input_dir, statements, i, all_transactions,
                   parsed, output_dir, archive_dir, stderr, textVars>>

Next ==
    \/ ParseArguments
    \/ GetStatementFiles
    \/ ParseStatement
    \/ WriteAccount
    \/ ArchiveFile
    \/ PrintSummary

Spec == Init /\ [][Next]_vars

-----------------------------------------------------------------------------
(* main() as a function of the list of statements: what a run over that    *)
(* list leaves in the output directory                                     *)

RECURSIVE RunLedger(_, _)
\* the dict after the first k statements of stmts, lines 160 to 164
RunLedger(stmts, k) ==
    IF k = 0 THEN <<>>
    ELSE LET r == Statement[stmts[k].pdf]
         IN  Accumulate(RunLedger(stmts, k - 1), r.account_name,
                        Items(r.transactions, k))

\* the set of files written, lines 166 to 169; none when a statement fails
RunOutput(stmts, header) ==
    IF \E k \in 1..Len(stmts) : Statement[stmts[k].pdf].outcome # "ok"
    THEN {}
    ELSE LET d == RunLedger(stmts, Len(stmts))
             Sorted(k) == sort(d[k].txs)
         IN  {write_csv(generate_filename(d[k].account, Sorted(k)), Sorted(k),
                        header) : k \in 1..Len(d)}

-----------------------------------------------------------------------------
(* Vocabulary of the properties *)

Terminated == pc \in {"done", "exit", "crash"}

\* the lists of the dict that main() has sorted so far
SortedEntries ==
    IF pc = "write" THEN 1..(i - 1)
    ELSE IF pc \in {"archive", "summary", "done"} THEN 1..Len(all_transactions)
    ELSE {}

AllSorted == pc \in {"archive", "summary", "done"}

\* x came before y in the accumulated list: an earlier statement, or the same
\* statement and an earlier place in it
Earlier(x, y) == x.file < y.file \/ (x.file = y.file /\ x.pos < y.pos)

\* the account names of the statements parsed
Accounts == {parsed[k].account_name : k \in 1..Len(parsed)}

\* the rows of a CSV file that are transactions
DataRows(f) == IF args.header THEN Tail(f.rows) ELSE f.rows

\* how often the tuple t is in the list l of tuples
Count(t, l) == Cardinality({j \in 1..Len(l) : l[j] = t})

\* how often the tuple t is in the statements parsed for the account a
CountParsed(t, a) ==
    Cardinality({kj \in UNION {{<<k, j>> : j \in 1..Len(parsed[k].transactions)} :
                                 k \in 1..Len(parsed)} :
        /\ parsed[kj[1]].account_name = a
        /\ parsed[kj[1]].transactions[kj[2]] = t})

\* the tuples of the statements parsed for the account a
TuplesParsed(a) ==
    UNION {{parsed[k].transactions[j] : j \in 1..Len(parsed[k].transactions)} :
             k \in {n \in 1..Len(parsed) : parsed[n].account_name = a}}

Tuples(l) == {l[j].t : j \in 1..Len(l)}

Perms(n) == {q \in [1..n -> 1..n] : \A a, b \in 1..n : q[a] = q[b] => a = b}

ListedErrors ==
    {NotADirectory, CouldNotParse, NoAccountDetails, NoTransactions, NoPdfFiles}

-----------------------------------------------------------------------------
(* C1 *)

\* C1: once a CSV file is written or a file is archived, every statement of the
\* batch has been parsed with success and nothing has gone to standard error;
\* so a statement that fails to parse ends the run before any of the two.
C1_NoOutputBeforeAllParsed ==
    (output_dir # <<>> \/ archive_dir # <<>>) =>
        /\ Len(statements) > 0
        /\ Len(parsed) = Len(statements)
        /\ \A k \in 1..Len(statements) : Statement[statements[k].pdf].outcome = "ok"
        /\ stderr = <<>>

C1_Witness ==
    /\ Len(statements) = 2
    /\ output_dir # <<>>
    /\ archive_dir # <<>>

-----------------------------------------------------------------------------
(* C2 *)

\* C2: with an archive directory, no file is moved before the CSV of every
\* account is written, and a run that completes has moved every statement under
\* its own name; with none, no file is ever moved.
C2_ArchiveAfterCsv ==
    /\ archive_dir # <<>> =>
          /\ args.archive
          /\ Len(parsed) = Len(statements)
          /\ Len(output_dir) = Cardinality(Accounts)
    /\ (pc = "done" /\ args.archive) =>
          /\ Len(archive_dir) = Len(statements)
          /\ \A k \in 1..Len(statements) :
                /\ archive_dir[k].name = Name(statements[k])
                /\ archive_dir[k].pdf = statements[k].pdf
          /\ \A k \in 1..Len(input_dir) : ~IsPdf(input_dir[k])
    /\ ~args.archive =>
          /\ archive_dir = <<>>
          /\ statements # <<>> => SelectSeq(input_dir, IsPdf) = statements

C2_Witness ==
    /\ pc = "done"
    /\ args.archive
    /\ Len(archive_dir) = 2
    /\ Len(output_dir) = 2

-----------------------------------------------------------------------------
(* C3 *)

-----------------------------------------------------------------------------
(* C4 *)

\* C4: when the run is done every account of the statements has exactly one
\* entry in the dict and there is one CSV file per account, whose rows are in
\* non-decreasing order of their dates.
C4_OneCsvPerAccount ==
    pc = "done" =>
        /\ \A a \in Accounts :
              Cardinality({k \in 1..Len(all_transactions) :
                             all_transactions[k].account = a}) = 1
        /\ Len(output_dir) = Cardinality(Accounts)
        /\ \A k \in 1..Len(output_dir) :
              LET rows == DataRows(output_dir[k])
              IN  \A j \in 1..(Len(rows) - 1) : ~StrLess(rows[j + 1][1], rows[j][1])

\* two statements of one account, the first with the later dates
C4_Witness ==
    /\ pc = "done"
    /\ Len(parsed) = 2
    /\ parsed[1].account_name = parsed[2].account_name
    /\ DateLess(parsed[2].transactions[1][1], parsed[1].transactions[1][1])
    /\ Len(output_dir) = 1

-----------------------------------------------------------------------------
(* C5 *)

\* C5: a run over the same statements listed in any other order leaves the same
\* files: the same names, and in each the same rows in the same order.
C5_SameOutputInAnyOrder ==
    Terminated =>
        \A q \in Perms(Len(statements)) :
            RunOutput([k \in 1..Len(statements) |-> statements[q[k]]], args.header)
                = {output_dir[k] : k \in 1..Len(output_dir)}

\* two different statements of one account, and the run done
C5_Witness ==
    /\ pc = "done"
    /\ Len(statements) = 2
    /\ statements[1].pdf # statements[2].pdf
    /\ Len(output_dir) = 1

-----------------------------------------------------------------------------
(* C6 *)

\* C6: after the sort, the keys of the dict are the account names of the
\* statements, each once, no list is empty, and every tuple is in the list of an
\* account as often as in all the statements of that account together.
C6_LedgerIsUnionOfStatements ==
    AllSorted =>
        /\ {all_transactions[k].account : k \in 1..Len(all_transactions)} = Accounts
        /\ Len(all_transactions) = Cardinality(Accounts)
        /\ \A k \in 1..Len(all_transactions) :
              LET e == all_transactions[k]
                  l == [j \in 1..Len(e.txs) |-> e.txs[j].t]
              IN  /\ Len(l) > 0
                  /\ \A t \in Tuples(e.txs) \cup TuplesParsed(e.account) :
                        Count(t, l) = CountParsed(t, e.account)

\* an account with a tuple that two of its statements hold
C6_Witness ==
    /\ AllSorted
    /\ \E k \in 1..Len(all_transactions) :
          \E t \in Tuples(all_transactions[k].txs) :
              CountParsed(t, all_transactions[k].account) = 2

-----------------------------------------------------------------------------
(* C7 *)

\* C7: a run ends in success or in one fatal error of the listed kinds, with
\* one message on standard error and a status that is not zero; and
\* parse_pdf_statement returns an account name with a list that is not empty,
\* or ends in a fatal error, and in no other way.
C7_EveryEndIsSuccessOrFatal ==
    /\ Terminated =>
          \/ pc = "done" /\ status = 0 /\ stderr = <<>>
          \/ /\ pc = "exit"
             /\ status # 0
             /\ Len(stderr) = 1
             /\ stderr[1].error \in ListedErrors
    /\ \A k \in 1..Len(parsed) :
          /\ parsed[k].outcome = "ok"
          /\ Len(parsed[k].transactions) > 0

-----------------------------------------------------------------------------
(* C8 and C9, on find_transactions alone *)

\* "Coffee Shop"
CoffeeShop == <<"C", "o", "f", "f", "e", "e", " ", "S", "h", "o", "p">>

\* C8: the text of the one line "01 Jan 2024 Coffee Shop  -£4.50 -£95.50" and a
\* newline gives exactly one transaction: the date 2024-01-01, the description
\* "Coffee Shop" and the amount "-4.50".
C8_CoffeeShop ==
    (found.run /\ doc = <<LineCoffee>>) =>
        found.result =
            [raised |-> FALSE,
             value |-> << << <<2024, 1, 1>>, CoffeeShop,
                             <<"-", "4", ".", "5", "0">> >> >>]

\* the lines of doc that are well-formed transaction lines
TxLines == SelectSeq([j \in 1..Len(doc) |-> j], LAMBDA j : doc[j].tx)

RECURSIVE LineStart(_)
\* where the j-th line of doc starts in text
LineStart(j) == IF j = 1 THEN 1 ELSE LineStart(j - 1) + Len(doc[j - 1].chars) + 1

\* C9: of a text with N well-formed transaction lines find_transactions returns
\* N transactions, and the k-th is matched inside the k-th of these lines.
C9_OnePerLine ==
    (found.run /\ ~found.result.raised) =>
        LET ms == findall(text)
        IN  /\ Len(found.result.value) = Len(TxLines)
            /\ \A k \in 1..Len(TxLines) :
                  /\ ms[k].start = LineStart(TxLines[k])
                  /\ ms[k].end = LineStart(TxLines[k]) + Len(doc[TxLines[k]].chars)

-----------------------------------------------------------------------------
(* C10 *)

MinDate(S) == CHOOSE d \in S : \A e \in S : ~DateLess(e, d)
MaxDate(S) == CHOOSE d \in S : \A e \in S : ~DateLess(d, e)

\* "X - 2024-01-01 to 2024-01-02.csv"
NameOfX ==
    <<"X", " ", "-", " ", "2", "0", "2", "4", "-", "0", "1", "-", "0", "1",
      " ", "t", "o", " ", "2", "0", "2", "4", "-", "0", "1", "-", "0", "2",
      ".", "c", "s", "v">>

\* C10: the name of the CSV file of an account is the account name, " - ", the
\* date of its first row, " to ", the date of its last row and ".csv", and these
\* dates are the earliest and the latest of all the statements of the account.
C10_FileName ==
    pc = "done" =>
        /\ Len(output_dir) = Len(all_transactions)
        /\ \A k \in 1..Len(output_dir) :
              LET account == all_transactions[k].account
                  rows == DataRows(output_dir[k])
                  dates == {t[1] : t \in TuplesParsed(account)}
              IN  /\ output_dir[k].name =
                         account \o <<" ", "-", " ">> \o rows[1][1]
                            \o <<" ", "t", "o", " ">> \o rows[Len(rows)][1]
                            \o <<".", "c", "s", "v">>
                  /\ rows[1][1] = IsoDate(MinDate(dates))
                  /\ rows[Len(rows)][1] = IsoDate(MaxDate(dates))
        /\ {statements[k].pdf : k \in 1..Len(statements)} = {"X1", "X2"} =>
              output_dir[1].name = NameOfX

\* the earliest and the latest date come from two statements
C10_Witness ==
    /\ pc = "done"
    /\ Len(statements) = 2
    /\ statements[1].pdf = "X1"
    /\ statements[2].pdf = "X2"
    /\ output_dir[1].name = NameOfX

====
